---- MODULE Spec2Model ----
(***************************************************************************)
(* Real-time notification transport of the tender project.                 *)
(*                                                                         *)
(*   server : src/server/index.js  (gateway, channel registry, heartbeat,  *)
(*            broadcastToChannel) and the route handlers that call         *)
(*            broadcastToChannel (src/server/routes/tenderRequests.js,     *)
(*            src/unnamed/part_001)                                        *)
(*   client : src/src/hooks/useWebSocket.ts, src/src/config/api.ts         *)
(*                                                                         *)
(* Strings that the code takes apart (URLs) are sequences of tokens; the   *)
(* separators "/" and "?" are tokens of their own.                         *)
(*                                                                         *)
(* The server compares client.readyState with WebSocket.OPEN, the global   *)
(* WebSocket of the runtime (index.js imports only WebSocketServer): the   *)
(* model takes a runtime that defines it (OPEN = 1, as in ws).             *)
(***************************************************************************)
EXTENDS Integers, Sequences, FiniteSets, TLC

VARIABLES
    wsConnections,   \* server: Map channel -> Set of connections (index.js:28)
    conns,           \* server: every socket the gateway has seen, by id
    nConns,          \* server: number of sockets accepted so far
    srvOp,           \* server: the handler that ran last and its input
    srvSent,         \* server: what that handler sent, per connection
    statsPending,    \* server: a create/delete handler awaits its count queries
    activeConnections, \* client: module-level registry channel -> socket
    socks,           \* client: every WebSocket object created, by id
    nSocks,          \* client: number of WebSocket objects the model holds
    hooks,           \* client: refs and state of each useWebSocket instance
    timers,          \* client: pending reconnect timeouts, per hook
    cliOp,           \* client: the callback that ran last
    delivered        \* client: hooks whose onMessage the last callback invoked

srvVars == <<wsConnections, conns, nConns, srvOp, srvSent, statsPending>>
cliVars == <<activeConnections, socks, nSocks, hooks, timers, cliOp, delivered>>
vars == <<wsConnections, conns, nConns, srvOp, srvSent, statsPending,
          activeConnections, socks, nSocks, hooks, timers, cliOp, delivered>>

---------------------------------------------------------------------------
(* Bounds *)

MaxConns == 2        \* sockets the gateway accepts in one run
MaxSocks == 4        \* WebSocket objects the client holds at a time
NumHooks == 2        \* useWebSocket instances in the page

---------------------------------------------------------------------------
(* Channel names and URLs *)

\* useWebSocket.ts:13
WebSocketChannel == {"DASHBOARD_STATS", "TENDER_REQUESTS", "WEBSITE_ANALYTICS"}

\* index.js:40
validChannels == {"DASHBOARD_STATS", "TENDER_REQUESTS", "WEBSITE_ANALYTICS"}

\* api.ts:3, the default: an origin without a path
WS_BASE_URL == <<"ws://localhost:5000">>

\* api.ts:76-80
API_ENDPOINTS_WS(channel) ==
    CASE channel = "DASHBOARD_STATS"   -> WS_BASE_URL \o <<"/", "ws", "/", "dashboard-stats">>
      [] channel = "TENDER_REQUESTS"   -> WS_BASE_URL \o <<"/", "ws", "/", "tender-requests">>
      [] channel = "WEBSITE_ANALYTICS" -> WS_BASE_URL \o <<"/", "ws", "/", "website-analytics">>

\* useWebSocket.ts:56
wsUrl(channel) == API_ENDPOINTS_WS(channel) \o <<"?", "channel=", channel>>

\* What the HTTP upgrade request carries as req.url: the URL without its origin.
RequestTarget(url) == Tail(url)

\* String.prototype.split on a one-token separator: the pieces between the
\* separators, at least one piece.
RECURSIVE Split(_, _)
Split(s, sep) ==
    IF s = <<>> THEN << <<>> >>
    ELSE LET rest == Split(Tail(s), sep) IN
         IF Head(s) = sep THEN << <<>> >> \o rest
         ELSE << <<Head(s)>> \o rest[1] >> \o Tail(rest)

\* A piece as a string: pieces of a path hold at most one name.
SegStr(seg) == IF seg = <<>> THEN "" ELSE seg[1]

\* index.js:33-34
ChannelOf(reqUrl) ==
    LET urlParts == Split(Split(reqUrl, "?")[1], "/") IN
    IF Len(urlParts) >= 2 /\ SegStr(urlParts[2]) # ""
    THEN SegStr(urlParts[2]) ELSE "default"

\* Request targets the gateway is offered: the ones useWebSocket builds and
\* some written by hand.
ClientTargets == { RequestTarget(wsUrl(c)) : c \in WebSocketChannel }
DirectTargets == { <<"/", "TENDER_REQUESTS">>,
                   <<"/", "DASHBOARD_STATS", "?", "token=", "t">>,
                   <<"/">> }
Targets == ClientTargets \cup DirectTargets

---------------------------------------------------------------------------
(* Server: src/server/index.js *)

ConnIds == 1..MaxConns

\* A socket the gateway has not seen yet.
NoConn == [st |-> "none", channel |-> "", code |-> 0,
           handlers |-> FALSE, isAlive |-> "undefined",
           isAuthenticated |-> FALSE, terminated |-> FALSE, unanswered |-> 0]

\* Envelopes: the type and, for CONNECTED, the channel.
Envelope(type, channel) == [type |-> type, channel |-> channel]

NoSends == [c \in ConnIds |-> <<>>]
\* throws: the connections whose send threw during a broadcast.
NoOp == [op |-> "none", route |-> "", url |-> <<>>, channel |-> "", data |-> "", conn |-> 0,
         throws |-> {}]

\* wss.clients: the sockets the server has accepted and not seen close.
wssClients == { c \in ConnIds : conns[c].st \in {"OPEN", "CLOSING"} }

Has(map, key) == key \in DOMAIN map
Get(map, key) == IF Has(map, key) THEN map[key] ELSE {}
MapSet(map, key, val) ==
    [k \in DOMAIN map \cup {key} |-> IF k = key THEN val ELSE map[k]]
MapDelete(map, key) == [k \in DOMAIN map \ {key} |-> map[k]]

\* index.js:47-53
Register(map, channel, ws) ==
    LET m1 == IF ~Has(map, channel) THEN MapSet(map, channel, {}) ELSE map
    IN  MapSet(m1, channel, m1[channel] \cup {ws})

\* A close handler that leaves the emptied entry in the map.
UnregisterKeepsEntry(map, channel, ws) ==
    IF Has(map, channel) THEN MapSet(map, channel, map[channel] \ {ws}) ELSE map

\* index.js:92-96
Unregister(map, channel, ws) ==
    LET m1 == IF Has(map, channel)
              THEN MapSet(map, channel, map[channel] \ {ws}) ELSE map
    IN  IF Has(m1, channel) /\ Cardinality(m1[channel]) = 0
        THEN MapDelete(m1, channel) ELSE m1

\* A gateway that validates nothing.
AnyChannelIsValid(channel) == TRUE

\* index.js:41, validChannels.includes(channel)
IsValidChannel(channel) == channel \in validChannels

\* An acknowledgement that does not name the channel.
AcknowledgementWithoutChannel(channel) == <<Envelope("CONNECTED", "")>>

\* An acknowledgement followed by a replay of the last broadcast.
AcknowledgementWithReplay(channel) ==
    IF srvOp.op = "broadcast"
    THEN <<Envelope("CONNECTED", channel), Envelope(srvOp.data, "")>>
    ELSE <<Envelope("CONNECTED", channel)>>

\* index.js:57-61, the acknowledgement sent to a connection just registered
Acknowledgement(channel) == <<Envelope("CONNECTED", channel)>>

\* index.js:31-109, wss.on('connection'). ackThrows: ws.send of the CONNECTED
\* acknowledgement throws (the case the handler's catch is there for).
Connection(url, ackThrows) ==
    /\ nConns < MaxConns
    /\ LET ws == nConns + 1
           channel == ChannelOf(url)
           base == [NoConn EXCEPT !.channel = channel]
       IN  /\ nConns' = ws
           /\ srvOp' = [NoOp EXCEPT !.op = "connection", !.url = url,
                                    !.channel = channel, !.conn = ws]
           /\ IF ~IsValidChannel(channel)
              THEN /\ conns' = [conns EXCEPT ![ws] =
                                  [base EXCEPT !.st = "CLOSING", !.code = 1008]]
                   /\ wsConnections' = wsConnections
                   /\ srvSent' = NoSends
              ELSE /\ wsConnections' = Register(wsConnections, channel, ws)
                   /\ IF ackThrows
                      THEN /\ conns' = [conns EXCEPT ![ws] =
                                  [base EXCEPT !.st = "CLOSING", !.code = 1011]]
                           /\ srvSent' = NoSends
                      ELSE /\ conns' = [conns EXCEPT ![ws] =
                                  [base EXCEPT !.st = "OPEN", !.handlers = TRUE,
                                               !.isAlive = "true"]]
                           /\ srvSent' = [NoSends EXCEPT ![ws] = Acknowledgement(channel)]
    /\ UNCHANGED <<statsPending, cliVars>>

\* What clients send: the two control types, a type the gateway does not
\* know, and text that is not JSON.
InboundMessages == {"PING", "AUTH", "NEW_REQUEST", "malformed"}

\* A message handler that answers every type it can parse with a PONG.
MessageAlwaysPong(ws, data) ==
    /\ conns[ws].st = "OPEN"
    /\ conns[ws].handlers
    /\ srvOp' = [NoOp EXCEPT !.op = "message", !.data = data, !.conn = ws,
                             !.channel = conns[ws].channel]
    /\ IF data # "malformed"
       THEN /\ srvSent' = [NoSends EXCEPT ![ws] = <<Envelope("PONG", "")>>]
            /\ conns' = [conns EXCEPT ![ws].isAlive = "true", ![ws].unanswered = 0]
       ELSE /\ srvSent' = NoSends
            /\ conns' = conns
    /\ UNCHANGED <<wsConnections, nConns, statsPending, cliVars>>

\* index.js:64-87, ws.on('message')
Message(ws, data) ==
    /\ conns[ws].st = "OPEN"
    /\ conns[ws].handlers
    /\ srvOp' = [NoOp EXCEPT !.op = "message", !.data = data, !.conn = ws,
                             !.channel = conns[ws].channel]
    /\ CASE data = "PING" ->
              /\ srvSent' = [NoSends EXCEPT ![ws] = <<Envelope("PONG", "")>>]
              /\ conns' = [conns EXCEPT ![ws].isAlive = "true", ![ws].unanswered = 0]
         [] data = "AUTH" ->
              /\ srvSent' = [NoSends EXCEPT ![ws] = <<Envelope("AUTH_SUCCESS", "")>>]
              /\ conns' = [conns EXCEPT ![ws].isAuthenticated = TRUE]
         [] OTHER ->
              /\ srvSent' = NoSends
              /\ conns' = conns
    /\ UNCHANGED <<wsConnections, nConns, statsPending, cliVars>>

\* A pong handler that leaves the liveness flag as it is.
PongLeavesFlag(ws) ==
    /\ conns[ws].st = "OPEN"
    /\ conns[ws].handlers
    /\ conns' = [conns EXCEPT ![ws].unanswered = 0]
    /\ srvOp' = [NoOp EXCEPT !.op = "pong", !.conn = ws, !.channel = conns[ws].channel]
    /\ srvSent' = NoSends
    /\ UNCHANGED <<wsConnections, nConns, statsPending, cliVars>>

\* index.js:101-103, ws.on('pong')
Pong(ws) ==
    /\ conns[ws].st = "OPEN"
    /\ conns[ws].handlers
    /\ conns' = [conns EXCEPT ![ws].isAlive = "true", ![ws].unanswered = 0]
    /\ srvOp' = [NoOp EXCEPT !.op = "pong", !.conn = ws, !.channel = conns[ws].channel]
    /\ srvSent' = NoSends
    /\ UNCHANGED <<wsConnections, nConns, statsPending, cliVars>>

\* The socket's 'close' event (the peer closed, the close handshake the
\* server started ended, or terminate() destroyed the socket); index.js:90-97
\* runs when the handler was installed. The server reads the flags of a
\* socket only while it is in wss.clients: the model drops them at the close.
SocketClose(ws) ==
    /\ ws \in wssClients
    /\ conns' = [conns EXCEPT ![ws].st = "CLOSED", ![ws].isAlive = "undefined",
                              ![ws].isAuthenticated = FALSE, ![ws].unanswered = 0]
    /\ wsConnections' = IF conns[ws].handlers
                        THEN Unregister(wsConnections, conns[ws].channel, ws)
                        ELSE wsConnections
    /\ srvOp' = [NoOp EXCEPT !.op = "close", !.conn = ws, !.channel = conns[ws].channel]
    /\ srvSent' = NoSends
    /\ UNCHANGED <<nConns, statsPending, cliVars>>

\* A sweep that pings and forgets to clear the liveness flag.
SweepOneLeavesFlag(c) ==
    IF c.isAlive = "false"
    THEN [c EXCEPT !.st = "CLOSING", !.terminated = TRUE]
    ELSE [c EXCEPT !.unanswered = IF c.unanswered < 2 THEN c.unanswered + 1 ELSE 2]

\* index.js:129-134, one socket of the sweep
SweepOne(c) ==
    IF c.isAlive = "false"
    THEN [c EXCEPT !.st = "CLOSING", !.terminated = TRUE]
    ELSE [c EXCEPT !.isAlive = "false",
                   !.unanswered = IF c.unanswered < 2 THEN c.unanswered + 1 ELSE 2]

\* index.js:127-136, the 30 s interval
HeartbeatSweep ==
    /\ wssClients # {}
    /\ conns' = [c \in ConnIds |-> IF c \in wssClients THEN SweepOne(conns[c]) ELSE conns[c]]
    /\ srvOp' = [NoOp EXCEPT !.op = "sweep"]
    /\ srvSent' = NoSends
    /\ UNCHANGED <<wsConnections, nConns, statsPending, cliVars>>

\* A broadcast that goes to the open members of every channel.
broadcastToAllChannels(channel, data, throws) ==
    [c \in ConnIds |->
        IF (\E ch \in DOMAIN wsConnections : c \in wsConnections[ch])
           /\ conns[c].st = "OPEN"
           /\ c \notin throws
        THEN <<Envelope(data, "")>> ELSE <<>>]

\* A broadcast that goes to wss.clients, whatever the channel.
broadcastToClients(channel, data, throws) ==
    [c \in ConnIds |->
        IF conns[c].st = "OPEN" /\ c \notin throws
        THEN <<Envelope(data, "")>> ELSE <<>>]

\* A broadcast without the try/catch of index.js:116-120: the first send
\* that throws ends the forEach, and the members registered after that one
\* (a Set iterates in insertion order) are not sent to.
broadcastUncaught(channel, data, throws) ==
    [c \in ConnIds |->
        IF Has(wsConnections, channel)
           /\ c \in wsConnections[channel]
           /\ conns[c].st = "OPEN"
           /\ \A t \in throws : c < t
        THEN <<Envelope(data, "")>> ELSE <<>>]

\* index.js:112-124: what one call sends, per connection. throws: the
\* members whose client.send throws; the catch of index.js:118 logs it and
\* the forEach goes on.
broadcastToChannel(channel, data, throws) ==
    [c \in ConnIds |->
        IF Has(wsConnections, channel)
           /\ c \in wsConnections[channel]
           /\ conns[c].st = "OPEN"
           /\ c \notin throws
        THEN <<Envelope(data, "")>> ELSE <<>>]

\* The sends of one broadcast that may throw: none, or the send to one open
\* member of the channel.
SendFailures(channel) ==
    {{}} \cup { {c} : c \in { m \in Get(wsConnections, channel) : conns[m].st = "OPEN" } }

\* A route handler's call of broadcastToChannel.
Broadcast(route, channel, data) ==
    /\ \E throws \in SendFailures(channel) :
          /\ srvSent' = broadcastToChannel(channel, data, throws)
          /\ srvOp' = [NoOp EXCEPT !.op = "broadcast", !.route = route,
                                   !.channel = channel, !.data = data,
                                   !.throws = throws]
    /\ UNCHANGED <<wsConnections, conns, nConns, cliVars>>

\* tenderRequests.js:61-128, POST /: the NEW_REQUEST broadcast; the handler
\* then awaits two counts before it broadcasts the statistics.
PostTenderRequest ==
    /\ ~statsPending
    /\ Broadcast("POST /", "tender-requests", "NEW_REQUEST")
    /\ statsPending' = TRUE

\* tenderRequests.js:147-176, PATCH /:id/status
PatchTenderStatus ==
    /\ Broadcast("PATCH /:id/status", "tender-requests", "UPDATE_REQUEST")
    /\ UNCHANGED statsPending

\* tenderRequests.js:179-216, POST /:id/notes
PostTenderNote ==
    /\ Broadcast("POST /:id/notes", "tender-requests", "UPDATE_REQUEST")
    /\ UNCHANGED statsPending

\* tenderRequests.js:219-253, DELETE /:id: the DELETE_REQUEST broadcast
DeleteTenderRequest ==
    /\ ~statsPending
    /\ Broadcast("DELETE /:id", "tender-requests", "DELETE_REQUEST")
    /\ statsPending' = TRUE

\* tenderRequests.js:112-118 and 240-246: the STATS_UPDATE broadcast that
\* ends the POST / and DELETE /:id handlers
TenderStatsUpdate ==
    /\ statsPending
    /\ Broadcast("stats", "dashboard-stats", "STATS_UPDATE")
    /\ statsPending' = FALSE

\* part_001:127-130, the admin router's GET /dashboard/stats
AdminDashboardStats ==
    /\ Broadcast("admin GET /dashboard/stats", "DASHBOARD_STATS", "STATS_UPDATE")
    /\ UNCHANGED statsPending

\* part_001:180-206, the admin router's PATCH /tender-requests/:id/status
AdminPatchStatus ==
    /\ Broadcast("admin PATCH /tender-requests/:id/status", "TENDER_REQUESTS", "UPDATE_REQUEST")
    /\ UNCHANGED statsPending

\* The tender-request mutation handlers of tenderRequests.js.
TenderRoutes == {"POST /", "PATCH /:id/status", "POST /:id/notes", "DELETE /:id", "stats"}

---------------------------------------------------------------------------
(* Client: src/src/hooks/useWebSocket.ts *)

SockIds == 1..MaxSocks
HookIds == 1..NumHooks

\* useWebSocket.ts:20, the default of the reconnectAttempts option
reconnectAttempts == 5

\* The channel argument of each instance: the first two are two components
\* on the same channel, a further one is on another channel.
HookChannel(h) == IF h <= 2 THEN "TENDER_REQUESTS" ELSE "DASHBOARD_STATS"

\* A WebSocket object not created yet. silent: the socket has neither
\* opened nor received a message for more than 45 s.
NoSock == [st |-> "none", owner |-> 0, channel |-> "",
           pingInterval |-> FALSE, healthCheck |-> FALSE, sharedLeft |-> FALSE,
           silent |-> FALSE]

\* useWebSocket.ts:27-33: state and refs of an instance before its effect
\* runs. stale: more than 45 s have passed since lastMessageTimeRef.
\* mounted: the effect has run and its cleanup has not.
NewHook == [mounted |-> FALSE, wsRef |-> 0, reconnectCount |-> 0,
            reconnectTimeoutRef |-> 0, isUnmounted |-> FALSE,
            isConnected |-> FALSE, error |-> "", stale |-> FALSE]

\* shared: an unsubscribe that left other instances attached to a socket
\* that was connecting or open. timeout: the delay in ms of the reconnect
\* timeout a close armed, 0 when it armed none.
NoCliOp == [op |-> "none", sock |-> 0, hook |-> 0, shared |-> FALSE, timeout |-> 0]

Min(a, b) == IF a <= b THEN a ELSE b

\* A fixed delay, the reconnectInterval option (useWebSocket.ts:21) the hook
\* accepts and never uses.
timeoutFixed(reconnectCount) == 3000

\* useWebSocket.ts:93, Math.min(1000 * Math.pow(2, reconnectCountRef.current), 30000)
timeout(reconnectCount) == Min(1000 * 2^reconnectCount, 30000)

\* Object.values(activeConnections)
ActiveValues == { activeConnections[ch] : ch \in DOMAIN activeConnections }

\* WebSocket.close(): a socket that is connecting or open starts closing.
CloseSock(sk) == IF sk.st \in {"CONNECTING", "OPEN"} THEN [sk EXCEPT !.st = "CLOSING"] ELSE sk

\* The hooks that hold socket k in wsRef while their effect is active.
Attached(k) == { h \in HookIds : hooks[h].mounted /\ hooks[h].wsRef = k }

\* useWebSocket.ts:58, new WebSocket(wsUrl): the object gets the lowest id
\* that names no socket.
NewSockId ==
    LET free == { k \in SockIds : socks[k].st = "none" }
    IN  CHOOSE k \in free : \A j \in free : k <= j

\* useWebSocket.ts:35-139, connect() of instance h, run on the refs hk:
\* the registry, the sockets, their number and the refs afterwards.
connect(h, hk) ==
    LET ch == HookChannel(h)
        ref == hk[h].wsRef
        same == [ac |-> activeConnections, socks |-> socks, n |-> nSocks, hooks |-> hk]
    IN  IF ref # 0 /\ socks[ref].st \in {"CONNECTING", "OPEN"}
        THEN same
        ELSE IF ch \in DOMAIN activeConnections
        THEN [same EXCEPT !.hooks = [hk EXCEPT ![h].wsRef = activeConnections[ch],
                                               ![h].isConnected = TRUE]]
        ELSE LET ws == NewSockId IN
             [ac |-> MapSet(activeConnections, ch, ws),
              socks |-> [socks EXCEPT ![ws] =
                           [NoSock EXCEPT !.st = "CONNECTING", !.owner = h, !.channel = ch,
                                          !.pingInterval = TRUE, !.healthCheck = TRUE]],
              n |-> nSocks + 1,
              hooks |-> [hk EXCEPT ![h].wsRef = ws]]

\* connect() needs a WebSocket object the bound still allows.
CanConnect(h, hk) ==
    \/ hk[h].wsRef # 0 /\ socks[hk[h].wsRef].st \in {"CONNECTING", "OPEN"}
    \/ HookChannel(h) \in DOMAIN activeConnections
    \/ nSocks < MaxSocks

ApplyConnect(r) ==
    /\ activeConnections' = r.ac
    /\ socks' = r.socks
    /\ nSocks' = r.n
    /\ hooks' = r.hooks

\* useWebSocket.ts:141-146, the effect: a subscriber subscribes
Mount(h) ==
    /\ ~hooks[h].mounted
    /\ LET hk == [hooks EXCEPT ![h].mounted = TRUE, ![h].isUnmounted = FALSE] IN
       /\ CanConnect(h, hk)
       /\ ApplyConnect(connect(h, hk))
    /\ cliOp' = [NoCliOp EXCEPT !.op = "mount", !.hook = h]
    /\ delivered' = {}
    /\ UNCHANGED <<timers, srvVars>>

\* useWebSocket.ts:148-163, the effect's cleanup: a subscriber unsubscribes
Unmount(h) ==
    /\ hooks[h].mounted
    /\ LET ref == hooks[h].wsRef
           ch == HookChannel(h)
           otherComponentsUsingChannel == ref \in ActiveValues
           shared == /\ ref # 0
                     /\ socks[ref].st \in {"CONNECTING", "OPEN"}
                     /\ Attached(ref) \ {h} # {}
       IN  /\ cliOp' = [NoCliOp EXCEPT !.op = "unmount", !.hook = h, !.sock = ref,
                                       !.shared = shared]
           /\ timers' = [timers EXCEPT ![h] = @ \ {hooks[h].reconnectTimeoutRef}]
           /\ hooks' = [hooks EXCEPT ![h].mounted = FALSE, ![h].isUnmounted = TRUE,
                                     ![h].wsRef = 0, ![h].reconnectTimeoutRef = 0]
           /\ IF ref # 0 /\ ~otherComponentsUsingChannel
              THEN /\ socks' = [socks EXCEPT ![ref] = CloseSock(@)]
                   /\ activeConnections' = MapDelete(activeConnections, ch)
              ELSE /\ socks' = IF shared
                               THEN [socks EXCEPT ![ref].sharedLeft = TRUE]
                               ELSE socks
                   /\ activeConnections' = activeConnections
    /\ delivered' = {}
    /\ UNCHANGED <<nSocks, srvVars>>

\* useWebSocket.ts:62-72, ws.onopen
SockOpen(k) ==
    /\ socks[k].st = "CONNECTING"
    /\ socks' = [socks EXCEPT ![k].st = "OPEN", ![k].silent = FALSE]
    /\ hooks' = [hooks EXCEPT ![socks[k].owner].isConnected = TRUE,
                              ![socks[k].owner].error = "",
                              ![socks[k].owner].reconnectCount = 0,
                              ![socks[k].owner].stale = FALSE]
    /\ cliOp' = [NoCliOp EXCEPT !.op = "open", !.sock = k]
    /\ delivered' = {}
    /\ UNCHANGED <<activeConnections, nSocks, timers, srvVars>>

\* A message handler that hands event.data to the callback unparsed.
SockMessageUnparsed(k, parses) ==
    /\ socks[k].st = "OPEN"
    /\ socks' = [socks EXCEPT ![k].silent = FALSE]
    /\ hooks' = [hooks EXCEPT ![socks[k].owner].stale = FALSE]
    /\ delivered' = {socks[k].owner}
    /\ cliOp' = [NoCliOp EXCEPT !.op = IF parses THEN "message" ELSE "badmessage", !.sock = k]
    /\ UNCHANGED <<activeConnections, nSocks, timers, srvVars>>

\* useWebSocket.ts:74-82, ws.onmessage; parses: event.data is JSON
SockMessage(k, parses) ==
    /\ socks[k].st = "OPEN"
    /\ socks' = [socks EXCEPT ![k].silent = FALSE]
    /\ IF parses
       THEN /\ hooks' = [hooks EXCEPT ![socks[k].owner].stale = FALSE]
            /\ delivered' = {socks[k].owner}
            /\ cliOp' = [NoCliOp EXCEPT !.op = "message", !.sock = k]
       ELSE /\ hooks' = hooks
            /\ delivered' = {}
            /\ cliOp' = [NoCliOp EXCEPT !.op = "badmessage", !.sock = k]
    /\ UNCHANGED <<activeConnections, nSocks, timers, srvVars>>

\* useWebSocket.ts:104-107, ws.onerror
SockError(k) ==
    /\ socks[k].st \in {"CONNECTING", "OPEN"}
    /\ hooks' = [hooks EXCEPT ![socks[k].owner].error = "Connection error occurred"]
    /\ cliOp' = [NoCliOp EXCEPT !.op = "error", !.sock = k]
    /\ delivered' = {}
    /\ UNCHANGED <<activeConnections, socks, nSocks, timers, srvVars>>

\* useWebSocket.ts:84-102, ws.onclose: the socket's close event, whoever
\* closed it (the server, the network, or a close() of the client)
SockClose(k) ==
    /\ socks[k].st \in {"CONNECTING", "OPEN", "CLOSING"}
    /\ socks' = [socks EXCEPT ![k].st = "CLOSED"]
    /\ LET o == socks[k].owner IN
       IF hooks[o].isUnmounted
       THEN UNCHANGED <<hooks, activeConnections, timers>>
       ELSE /\ activeConnections' = MapDelete(activeConnections, socks[k].channel)
            /\ IF hooks[o].reconnectCount < reconnectAttempts
               THEN /\ timers' = [timers EXCEPT ![o] = @ \cup {k}]
                    /\ hooks' = [hooks EXCEPT ![o].isConnected = FALSE, ![o].wsRef = 0,
                                              ![o].reconnectTimeoutRef = k]
               ELSE /\ timers' = timers
                    /\ hooks' = [hooks EXCEPT ![o].isConnected = FALSE, ![o].wsRef = 0,
                                    ![o].error = "Maximum reconnection attempts reached"]
    /\ cliOp' = [NoCliOp EXCEPT !.op = "close", !.sock = k,
                                !.timeout = IF k \in timers'[socks[k].owner] \ timers[socks[k].owner]
                                            THEN timeout(hooks[socks[k].owner].reconnectCount)
                                            ELSE 0]
    /\ delivered' = {}
    /\ UNCHANGED <<nSocks, srvVars>>

\* useWebSocket.ts:95-98, the reconnect timeout armed by the close of socket t
ReconnectTimer(h, t) ==
    /\ t \in timers[h]
    /\ timers' = [timers EXCEPT ![h] = @ \ {t}]
    /\ LET hk == [hooks EXCEPT ![h].reconnectCount = @ + 1,
                               ![h].reconnectTimeoutRef = IF @ = t THEN 0 ELSE @] IN
       /\ CanConnect(h, hk)
       /\ ApplyConnect(connect(h, hk))
    /\ cliOp' = [NoCliOp EXCEPT !.op = "reconnect", !.hook = h, !.sock = t]
    /\ delivered' = {}
    /\ UNCHANGED srvVars

\* useWebSocket.ts:117-129, the 45 s health check interval of socket k, when
\* 45 s have passed without a message: it cancels itself once the creating
\* instance is torn down, and closes the socket when the creating instance
\* recorded no message for 45 s
HealthCheck(k) ==
    /\ socks[k].healthCheck
    /\ hooks[socks[k].owner].isUnmounted \/ hooks[socks[k].owner].stale \/ socks[k].silent
    /\ IF hooks[socks[k].owner].isUnmounted
       THEN socks' = [socks EXCEPT ![k].healthCheck = FALSE]
       ELSE IF hooks[socks[k].owner].stale
       THEN socks' = [socks EXCEPT ![k] = [CloseSock(@) EXCEPT !.healthCheck = FALSE,
                                                              !.pingInterval = FALSE]]
       ELSE socks' = socks
    /\ cliOp' = [NoCliOp EXCEPT !.op = "health", !.sock = k]
    /\ delivered' = {}
    /\ UNCHANGED <<activeConnections, nSocks, hooks, timers, srvVars>>

\* 45 s pass in which no message arrives on the sockets instance h created,
\* so that h records none (lastMessageTimeRef is read by the health checks
\* of the sockets h created, and by nothing else).
TimePasses(h) ==
    LET quiet == { k \in SockIds : /\ socks[k].owner = h
                                   /\ socks[k].st \in {"CONNECTING", "OPEN"} }
    IN  /\ ~hooks[h].stale \/ \E k \in quiet : ~socks[k].silent
        /\ \E k \in SockIds : socks[k].owner = h /\ socks[k].healthCheck
        /\ hooks' = [hooks EXCEPT ![h].stale = TRUE]
        /\ socks' = [k \in SockIds |->
                        IF k \in quiet THEN [socks[k] EXCEPT !.silent = TRUE] ELSE socks[k]]
        /\ cliOp' = [NoCliOp EXCEPT !.op = "time", !.hook = h]
        /\ delivered' = {}
        /\ UNCHANGED <<activeConnections, nSocks, timers, srvVars>>

\* A closed socket that nothing refers to any more (no wsRef, no registry
\* entry, no pending reconnect timeout; a timeout is named after the socket
\* whose close armed it) is dropped from the state. The intervals of
\* useWebSocket.ts:110-129 it may still carry do nothing on a closed socket
\* (ts:111, ts:124-126) and are dropped with it.
Forget(k) ==
    /\ socks[k].st = "CLOSED"
    /\ k \notin ActiveValues
    /\ \A g \in HookIds : /\ hooks[g].wsRef # k
                          /\ hooks[g].reconnectTimeoutRef # k
                          /\ k \notin timers[g]
    /\ socks' = [socks EXCEPT ![k] = NoSock]
    /\ nSocks' = nSocks - 1
    /\ cliOp' = [NoCliOp EXCEPT !.op = "forget", !.sock = k]
    /\ delivered' = {}
    /\ UNCHANGED <<activeConnections, hooks, timers, srvVars>>

---------------------------------------------------------------------------
(* Specifications *)

Init ==
    /\ wsConnections = <<>>
    /\ conns = [c \in ConnIds |-> NoConn]
    /\ nConns = 0
    /\ srvOp = NoOp
    /\ srvSent = NoSends
    /\ statsPending = FALSE
    /\ activeConnections = <<>>
    /\ socks = [k \in SockIds |-> NoSock]
    /\ nSocks = 0
    /\ hooks = [h \in HookIds |-> NewHook]
    /\ timers = [h \in HookIds |-> {}]
    /\ cliOp = NoCliOp
    /\ delivered = {}

\* The server: gateway, registry, heartbeat and the route handlers.
Next ==
    \/ \E url \in Targets, ackThrows \in BOOLEAN : Connection(url, ackThrows)
    \/ \E ws \in ConnIds, data \in InboundMessages : Message(ws, data)
    \/ \E ws \in ConnIds : Pong(ws)
    \/ \E ws \in ConnIds : SocketClose(ws)
    \/ HeartbeatSweep
    \/ PostTenderRequest
    \/ PatchTenderStatus
    \/ PostTenderNote
    \/ DeleteTenderRequest
    \/ TenderStatsUpdate
    \/ AdminDashboardStats
    \/ AdminPatchStatus

Spec == Init /\ [][Next]_vars

\* The client: the useWebSocket instances of one page, their sockets and
\* their reconnect timers.
ClientNext ==
    \/ \E h \in HookIds : Mount(h)
    \/ \E h \in HookIds : Unmount(h)
    \/ \E k \in SockIds : SockOpen(k)
    \/ \E k \in SockIds, parses \in BOOLEAN : SockMessage(k, parses)
    \/ \E k \in SockIds : SockClose(k)
    \/ \E h \in HookIds, t \in SockIds : ReconnectTimer(h, t)

ClientSpec == Init /\ [][ClientNext]_vars

\* The client with its error events and its 45 s health check as well, on
\* a page that creates at most WatchdogSocks sockets.
WatchdogSocks == MaxSocks - 2

WatchdogNext ==
    \/ \E h \in HookIds : Mount(h) /\ nSocks' <= WatchdogSocks
    \/ \E h \in HookIds : Unmount(h)
    \/ \E k \in SockIds : SockOpen(k)
    \/ \E k \in SockIds, parses \in BOOLEAN : SockMessage(k, parses)
    \/ \E k \in SockIds : SockClose(k)
    \/ \E h \in HookIds, t \in SockIds : ReconnectTimer(h, t) /\ nSocks' <= WatchdogSocks
    \/ \E k \in SockIds : SockError(k)
    \/ \E k \in SockIds : HealthCheck(k)
    \/ \E h \in HookIds : TimePasses(h)

WatchdogSpec == Init /\ [][WatchdogNext]_vars

\* The first subscriber, for the specifications of a page with one.
RetryHooks == {h \in HookIds : h = 1}

\* The inbound messages of both ends: the gateway with its message handler
\* and a client of one subscriber with its message handler, side by side.
InboundNext ==
    \/ \E url \in Targets, ackThrows \in BOOLEAN : Connection(url, ackThrows)
    \/ \E ws \in ConnIds, data \in InboundMessages : Message(ws, data)
    \/ \E ws \in ConnIds : SocketClose(ws)
    \/ \E h \in RetryHooks : Mount(h)
    \/ \E k \in SockIds : SockOpen(k)
    \/ \E k \in SockIds, parses \in BOOLEAN : SockMessage(k, parses)
    \/ \E k \in SockIds : SockClose(k)

InboundSpec == Init /\ [][InboundNext]_vars

\* The client over many connection attempts, with one subscriber: closed
\* sockets are forgotten, so that the reconnect cycle can run its full length.
RetryNext ==
    \/ \E h \in RetryHooks : Mount(h)
    \/ \E h \in RetryHooks : Unmount(h)
    \/ \E k \in SockIds : SockOpen(k)
    \/ \E k \in SockIds : SockClose(k)
    \/ \E h \in RetryHooks, t \in SockIds : ReconnectTimer(h, t)
    \/ \E k \in SockIds : Forget(k)

RetrySpec == Init /\ [][RetryNext]_vars

\* The client whose subscribers stay subscribed while the server ends every
\* connection they open, before or after the open handshake (the gateway,
\* index.js:41-45, closes a connection it refuses after accepting it). The
\* runtime runs every timeout that is due and delivers every close event.
RefusedNext ==
    \/ \E h \in HookIds : Mount(h)
    \/ \E k \in SockIds : SockOpen(k)
    \/ \E k \in SockIds : SockClose(k)
    \/ \E h \in HookIds, t \in SockIds : ReconnectTimer(h, t)
    \/ \E k \in SockIds : Forget(k)

RefusedSpec ==
    /\ Init
    /\ [][RefusedNext]_vars
    /\ \A k \in SockIds : WF_vars(SockClose(k))
    /\ \A h \in HookIds, t \in SockIds : WF_vars(ReconnectTimer(h, t))
    /\ \A k \in SockIds : WF_vars(Forget(k))

---------------------------------------------------------------------------
(* Claims about the server, checked under Spec *)

Members(channel) == Get(wsConnections, channel)
InSomeChannel(c) == \E ch \in DOMAIN wsConnections : c \in wsConnections[ch]

C2_ClientTargetRoutedToItsChannel ==
    \A ch \in WebSocketChannel :
        (srvOp.op = "connection" /\ srvOp.url = RequestTarget(wsUrl(ch))) =>
            /\ srvOp.channel = ch
            /\ conns[srvOp.conn].code # 1008
            /\ srvOp.conn \in Members(ch)

\* The whitelisted channel a broadcast name stands for: the name itself, or
\* the channel whose endpoint (api.ts:76-80) ends in that name.
CorrespondingChannels(name) ==
    { ch \in WebSocketChannel :
        ch = name \/ API_ENDPOINTS_WS(ch)[Len(API_ENDPOINTS_WS(ch))] = name }

\* C3: the event a tender-request mutation handler broadcasts is pushed to
\* every open connection registered for the corresponding channel.
C3_TenderEventsReachSubscribers ==
    (srvOp.op = "broadcast" /\ srvOp.route \in TenderRoutes) =>
        \A ch \in CorrespondingChannels(srvOp.channel) :
            \A c \in Members(ch) :
                conns[c].st = "OPEN" => srvSent[c] = <<Envelope(srvOp.data, "")>>

\* C4: a channel key is present in wsConnections if and only if it has a
\* member: no key maps to an empty set, and every connection whose close
\* handler has yet to run is in the set of its channel.
C4_ChannelKeyIffMembers ==
    /\ \A ch \in DOMAIN wsConnections : wsConnections[ch] # {}
    /\ \A c \in ConnIds :
          (conns[c].handlers /\ conns[c].st \in {"OPEN", "CLOSING"}) =>
              c \in Members(conns[c].channel)

\* C4's case: the close of the last member deleted the entry while another
\* connection had been registered and closed before.
C4_Witness ==
    /\ srvOp.op = "close"
    /\ conns[srvOp.conn].handlers
    /\ ~Has(wsConnections, srvOp.channel)
    /\ \E d \in ConnIds : d # srvOp.conn /\ conns[d].handlers
                          /\ conns[d].channel = srvOp.channel

\* C5: a connection whose channel name is not whitelisted is closed with
\* 1008, is never in a member set, has no entry created for its name, and
\* the attempt leaves the registry as it was.
C5_InvalidChannelRefused ==
    /\ [](\A c \in ConnIds :
            (conns[c].st # "none" /\ conns[c].channel \notin validChannels) =>
                /\ conns[c].code = 1008
                /\ conns[c].st \in {"CLOSING", "CLOSED"}
                /\ ~InSomeChannel(c)
                /\ ~Has(wsConnections, conns[c].channel))
    /\ [][\A url \in Targets, ackThrows \in BOOLEAN :
            (Connection(url, ackThrows) /\ ChannelOf(url) \notin validChannels)
                => wsConnections' = wsConnections]_vars

\* C5's case: a connection was refused while the registry held members.
C5_Witness ==
    /\ srvOp.op = "connection"
    /\ srvOp.channel \notin validChannels
    /\ conns[srvOp.conn].code = 1008
    /\ DOMAIN wsConnections # {}

\* C6: a registered connection that gave no proof of life since the last
\* sweep pinged it is terminated by the next sweep; the close handler then
\* removes it from its channel's set and deletes the entry if it was the
\* last member.
C6_SilentConnectionTerminated ==
    /\ [][HeartbeatSweep =>
            \A c \in ConnIds :
                (conns[c].handlers /\ conns[c].st = "OPEN" /\ conns[c].unanswered >= 1)
                    => (conns'[c].terminated /\ conns'[c].st = "CLOSING")]_vars
    /\ [][\A c \in ConnIds :
            (SocketClose(c) /\ conns[c].handlers /\ conns[c].terminated) =>
                /\ c \notin Get(wsConnections', conns[c].channel)
                /\ (Members(conns[c].channel) = {c}
                        => ~Has(wsConnections', conns[c].channel))]_vars

\* C6's case: a terminated connection has closed and, being the last member,
\* took its channel's entry with it.
C6_Witness ==
    \E c \in ConnIds :
        /\ conns[c].terminated /\ conns[c].handlers /\ conns[c].st = "CLOSED"
        /\ ~Has(wsConnections, conns[c].channel)

---------------------------------------------------------------------------
(* Claims about the client, checked under ClientSpec *)

\* The sockets of a channel that are connecting or open.
LiveSocks(ch) == { k \in SockIds : socks[k].channel = ch
                                   /\ socks[k].st \in {"CONNECTING", "OPEN"} }

\* C7: per channel at most one socket is connecting or open, and it is the
\* one recorded in activeConnections.
C7_OneLiveSocketPerChannel ==
    \A ch \in WebSocketChannel :
        /\ Cardinality(LiveSocks(ch)) <= 1
        /\ \A k \in LiveSocks(ch) :
              Has(activeConnections, ch) /\ activeConnections[ch] = k

\* C8: after one of two subscribers sharing a socket has unsubscribed
\* (either of them), the socket is still connecting or open and in the
\* registry, and every envelope received afterwards is delivered to the
\* callback of the subscriber that remains.
C8_RemainingSubscriberStillServed ==
    /\ (cliOp.op = "unmount" /\ cliOp.shared) =>
          /\ socks[cliOp.sock].st \in {"CONNECTING", "OPEN"}
          /\ Has(activeConnections, socks[cliOp.sock].channel)
          /\ activeConnections[socks[cliOp.sock].channel] = cliOp.sock
    /\ (cliOp.op = "message" /\ socks[cliOp.sock].sharedLeft) =>
          Attached(cliOp.sock) \subseteq delivered

\* C9: when the last subscriber of a channel unsubscribes, the channel's
\* socket is closed and its entry is removed from activeConnections.
C9_LastUnsubscribeClosesConnection ==
    (/\ cliOp.op = "unmount"
     /\ \A g \in HookIds : HookChannel(g) = HookChannel(cliOp.hook) => ~hooks[g].mounted)
    => /\ ~Has(activeConnections, HookChannel(cliOp.hook))
       /\ LiveSocks(HookChannel(cliOp.hook)) = {}

\* C10: for every envelope received on a socket, the callback of every
\* subscriber attached to that socket is invoked, also that of a subscriber
\* that attached to a socket another subscriber created.
C10_EveryAttachedCallbackInvoked ==
    cliOp.op = "message" => Attached(cliOp.sock) \subseteq delivered

\* The subscribers of socket k's channel still there after k's close was
\* handled: the instances whose effect is active and that held k in wsRef,
\* the creating instance among them (its wsRef is reset by the close).
StillSubscribed(k) ==
    { h \in HookIds : /\ hooks[h].mounted
                      /\ HookChannel(h) = socks[k].channel
                      /\ (hooks[h].wsRef = k \/ h = socks[k].owner) }

\* C11: when a channel's connection closes while a subscriber is still
\* attached and the attempt counter is below the maximum, a reconnect is
\* scheduled, whichever subscriber created the socket and whether or not
\* that subscriber has unsubscribed since.
C11_CloseWithSubscriberSchedulesReconnect ==
    ( /\ cliOp.op = "close"
      /\ StillSubscribed(cliOp.sock) # {}
      /\ hooks[socks[cliOp.sock].owner].reconnectCount < reconnectAttempts )
    => \E h \in HookIds : cliOp.sock \in timers[h]

---------------------------------------------------------------------------
(* Claims about the client's reconnect cycle *)

\* The delays the backoff is expected to produce for counter 0, 1, 2, ...
ExpectedDelay(k) ==
    LET doubling == <<1000, 2000, 4000, 8000, 16000>>
    IN  IF k < Len(doubling) THEN doubling[k + 1] ELSE 30000

\* C12: the delay of the reconnect a close schedules with counter k is
\* min(1000 * 2^k, 30000) ms, that is 1000, 2000, 4000, 8000, 16000, 30000,
\* 30000, ... for k = 0, 1, 2, ..., and every attempt the timeout performs
\* raises the counter by exactly one.
C12_BackoffDelay ==
    /\ [](\A k \in 0..(reconnectAttempts + 2) : timeout(k) = ExpectedDelay(k))
    /\ []( (cliOp.op = "close" /\ cliOp.timeout # 0)
           => cliOp.timeout = ExpectedDelay(hooks[socks[cliOp.sock].owner].reconnectCount) )
    /\ [][ cliOp'.op = "reconnect"
           => hooks'[cliOp'.hook].reconnectCount = hooks[cliOp'.hook].reconnectCount + 1 ]_vars

\* A close with counter 4 has armed a timeout of 16000 ms.
C12_Witness ==
    /\ cliOp.op = "close"
    /\ hooks[socks[cliOp.sock].owner].reconnectCount = 4
    /\ cliOp.timeout = 16000

\* C13: when a connection reaches open, the attempt counter of its manager
\* is 0 and its error is cleared, whatever the counter was before, and the
\* next close of that connection starts the backoff again at 1000 ms.
C13_OpenResetsCounter ==
    /\ [](cliOp.op = "open"
          => /\ hooks[socks[cliOp.sock].owner].reconnectCount = 0
             /\ hooks[socks[cliOp.sock].owner].error = "")
    /\ [][ ( /\ cliOp'.op = "close"
             /\ socks[cliOp'.sock].st = "OPEN"
             /\ cliOp'.timeout # 0 )
           => cliOp'.timeout = 1000 ]_vars

\* A close of a socket was handled while the counter of its manager had
\* reached the maximum.
ClosedAtMaximum ==
    /\ cliOp.op = "close"
    /\ ~hooks[socks[cliOp.sock].owner].isUnmounted
    /\ hooks[socks[cliOp.sock].owner].reconnectCount >= reconnectAttempts

\* C14: when a connection closes while the counter has reached the maximum
\* (5), no reconnect is scheduled and the error 'Maximum reconnection
\* attempts reached' is surfaced to the subscribers of the channel; the
\* counter never exceeds 5, so at most 5 automatic attempts are made between
\* two successful opens.
C14_MaximumStopsReconnect ==
    /\ ClosedAtMaximum
       => /\ cliOp.timeout = 0
          /\ \A h \in HookIds : cliOp.sock \notin timers[h]
          /\ \A h \in StillSubscribed(cliOp.sock) :
                hooks[h].error = "Maximum reconnection attempts reached"
    /\ \A h \in HookIds : hooks[h].reconnectCount <= reconnectAttempts

\* C15: when the server ends every connection the client opens, before or
\* right after the open handshake, the client eventually stops: from some
\* point on no reconnect is pending and no socket is connecting or open.
C15_RetriesEnd ==
    <>[]( /\ \A h \in HookIds : timers[h] = {}
          /\ \A k \in SockIds : socks[k].st \notin {"CONNECTING", "OPEN"} )

---------------------------------------------------------------------------
(* Claims about the server's error handling and registry *)

C18_BroadcastToAbsentChannel ==
    /\ []( (srvOp.op = "broadcast" /\ ~Has(wsConnections, srvOp.channel))
           => \A c \in ConnIds : srvSent[c] = <<>> )
    /\ [][ (srvOp'.op = "broadcast" /\ ~Has(wsConnections, srvOp'.channel))
           => (wsConnections' = wsConnections /\ ~Has(wsConnections', srvOp'.channel)) ]_vars

\* A broadcast to a channel without entry while another channel has an open
\* member.
C18_Witness ==
    /\ srvOp.op = "broadcast"
    /\ ~Has(wsConnections, srvOp.channel)
    /\ \E c \in ConnIds : conns[c].st = "OPEN" /\ InSomeChannel(c)

\* C19: a connection whose setup failed after the channel was validated is
\* closed with code 1011 and is in no channel's member set unless its close
\* handler is installed and will remove it.
C19_SetupErrorLeavesNoMember ==
    \A c \in ConnIds :
        conns[c].code = 1011
        => /\ conns[c].st \in {"CLOSING", "CLOSED"}
           /\ InSomeChannel(c) => conns[c].handlers

\* C20: every member of a channel's set was validated for exactly that
\* channel; a connection whose socket has closed (closed by the peer, after
\* an error, or terminated) and whose close was handled is a member of no
\* set; and removing it a second time changes nothing.
C20_MembersAreValidAndLive ==
    /\ \A ch \in DOMAIN wsConnections : \A c \in wsConnections[ch] :
          /\ IsValidChannel(ch)
          /\ conns[c].channel = ch
    /\ \A c \in ConnIds : conns[c].st = "CLOSED" => ~InSomeChannel(c)
    /\ \A c \in ConnIds, ch \in validChannels :
          LET removed == Unregister(wsConnections, ch, c)
          IN  Unregister(removed, ch, c) = removed

---------------------------------------------------------------------------
(* Claims about the client's teardown *)

\* C17: once a manager is torn down no reconnect timeout of it is pending,
\* no later close event arms one, and none performs a reconnect, whether
\* the teardown came while its socket was connecting, open, or closed and
\* waiting for the backoff timeout.
C17_TeardownCancelsReconnect ==
    /\ [](cliOp.op = "unmount" => timers[cliOp.hook] = {})
    /\ [][ \A h \in HookIds :
              (~hooks[h].mounted /\ ~hooks'[h].mounted) => timers'[h] \subseteq timers[h] ]_vars
    /\ [][ cliOp'.op = "reconnect" => hooks[cliOp'.hook].mounted ]_vars

---------------------------------------------------------------------------
(* Claims about the heartbeat and the inbound messages of the server *)

\* C21: a connection that answered the ping of the last sweep, with a pong
\* or with a PING of its own, is not terminated by the next sweep: its
\* liveness flag is true when the sweep comes, and the sweep sets it false
\* and pings again.
C21_AnsweringConnectionSurvives ==
    /\ [](\A c \in ConnIds :
            (conns[c].st = "OPEN" /\ conns[c].handlers /\ conns[c].unanswered = 0)
            => conns[c].isAlive = "true")
    /\ [][ srvOp'.op = "sweep"
           => \A c \in ConnIds :
                 (c \in wssClients /\ conns[c].handlers /\ conns[c].unanswered = 0)
                 => /\ ~conns'[c].terminated
                    /\ conns'[c].st = conns[c].st
                    /\ conns'[c].isAlive = "false"
                    /\ conns'[c].unanswered = 1 ]_vars

\* A sweep has terminated a silent connection, and a connection accepted
\* before that one, which answered, is open and was pinged again.
C21_Witness ==
    /\ srvOp.op = "sweep"
    /\ \E c, d \in ConnIds :
          /\ c < d
          /\ conns[d].terminated
          /\ conns[c].st = "OPEN" /\ conns[c].handlers /\ ~conns[c].terminated
          /\ conns[c].isAlive = "false" /\ conns[c].unanswered = 1

\* C23: on an open registered connection an inbound PING is answered with
\* exactly one PONG and sets the liveness flag true; an AUTH sets the
\* authenticated flag and is answered with exactly one AUTH_SUCCESS; any
\* other type is answered with nothing and changes no flag; no message
\* changes the registry or another connection, or sends to another one.
C23_InboundEnvelopes ==
    /\ [](srvOp.op = "message"
          => /\ \A c \in ConnIds \ {srvOp.conn} : srvSent[c] = <<>>
             /\ srvOp.data = "PING"
                => /\ srvSent[srvOp.conn] = <<Envelope("PONG", "")>>
                   /\ conns[srvOp.conn].isAlive = "true"
             /\ srvOp.data = "AUTH"
                => /\ srvSent[srvOp.conn] = <<Envelope("AUTH_SUCCESS", "")>>
                   /\ conns[srvOp.conn].isAuthenticated
             /\ srvOp.data \notin {"PING", "AUTH"}
                => srvSent[srvOp.conn] = <<>>)
    /\ [][ srvOp'.op = "message"
           => /\ wsConnections' = wsConnections
              /\ \A c \in ConnIds \ {srvOp'.conn} : conns'[c] = conns[c]
              /\ srvOp'.data = "PING"
                 => conns'[srvOp'.conn].isAuthenticated = conns[srvOp'.conn].isAuthenticated
              /\ srvOp'.data = "AUTH"
                 => conns'[srvOp'.conn].isAlive = conns[srvOp'.conn].isAlive
              /\ srvOp'.data \notin {"PING", "AUTH"} => conns' = conns ]_vars

\* An AUTH was answered on a connection that a sweep had pinged: it is
\* authenticated and its liveness flag is still false.
C23_Witness ==
    /\ srvOp.op = "message"
    /\ srvOp.data = "AUTH"
    /\ srvSent[srvOp.conn] = <<Envelope("AUTH_SUCCESS", "")>>
    /\ conns[srvOp.conn].isAuthenticated
    /\ conns[srvOp.conn].isAlive = "false"

\* C24: a message that does not parse is dropped. On the server the
\* connection stays open with its handlers, registered, with every flag as
\* it was, and nothing is sent; on the client the socket stays open, no
\* callback is invoked and no state of an instance changes; so the next
\* well-formed message is processed as before.
C24_MalformedMessageDropped ==
    /\ [][ (srvOp'.op = "message" /\ srvOp'.data = "malformed")
           => /\ conns' = conns
              /\ conns'[srvOp'.conn].st = "OPEN" /\ conns'[srvOp'.conn].handlers
              /\ wsConnections' = wsConnections
              /\ srvOp'.conn \in Members(conns[srvOp'.conn].channel)
              /\ srvSent' = NoSends ]_vars
    /\ [][ cliOp'.op = "badmessage"
           => /\ delivered' = {}
              /\ socks'[cliOp'.sock].st = "OPEN"
              /\ hooks' = hooks
              /\ activeConnections' = activeConnections
              /\ timers' = timers ]_vars

\* Both ends have just dropped a message that does not parse, the server
\* on a connection that is authenticated.
C24_Witness ==
    /\ srvOp.op = "message" /\ srvOp.data = "malformed"
    /\ conns[srvOp.conn].st = "OPEN" /\ conns[srvOp.conn].isAuthenticated
    /\ cliOp.op = "badmessage"
    /\ socks[cliOp.sock].st = "OPEN"

---------------------------------------------------------------------------
(* Claims about the client's watchdog and interval timers *)

\* C22: when the watchdog of a socket fires while the socket is open and no
\* message arrived on it for more than 45 s, the socket is closed by the
\* client; and the watchdog closes no socket on which a message arrived
\* within the last 45 s.
C22_WatchdogClosesSilentSocket ==
    [][ cliOp'.op = "health"
        => /\ (socks[cliOp'.sock].st = "OPEN" /\ socks[cliOp'.sock].silent)
              => socks'[cliOp'.sock].st = "CLOSING"
           /\ (socks[cliOp'.sock].st = "OPEN" /\ socks'[cliOp'.sock].st = "CLOSING")
              => socks[cliOp'.sock].silent ]_vars

---------------------------------------------------------------------------
(* Claims about the client's subscribers *)

\* C25: the callback of a subscriber that has unsubscribed is not invoked
\* for an envelope that arrives afterwards, whether or not other
\* subscribers keep the connection open.
C25_NoCallbackAfterUnsubscribe ==
    cliOp.op = "message" => \A h \in delivered : hooks[h].mounted

\* C26: a subscribe call leaves the subscriber attached to the connection
\* registered for its channel, and that connection is connecting or open:
\* the registered one if it was in one of these states, a new one otherwise.
C26_SubscribeAttachesToLiveSocket ==
    cliOp.op = "mount"
    => LET h == cliOp.hook IN
       /\ HookChannel(h) \in DOMAIN activeConnections
       /\ hooks[h].wsRef = activeConnections[HookChannel(h)]
       /\ socks[hooks[h].wsRef].st \in {"CONNECTING", "OPEN"}


(* Claims about what a connection is sent *)
Acknowledged(sent) == \E i \in 1..Len(sent) : sent[i].type = "CONNECTED"

\* C27: a connection whose registration succeeds is sent one CONNECTED
\* envelope naming its channel, in the step that registers it; no later step
\* sends it another one, and a broadcast sends only to connections that
\* were registered, and so acknowledged, before the broadcast.
C27_AcknowledgedOnceBeforeBroadcasts ==
    [][\A c \in ConnIds :
          /\ (conns'[c].handlers /\ ~conns[c].handlers)
             => srvSent'[c] = <<Envelope("CONNECTED", conns'[c].channel)>>
          /\ Acknowledged(srvSent'[c])
             => /\ conns[c].st = "none"
                /\ conns'[c].handlers
                /\ Len(srvSent'[c]) = 1
          /\ (srvOp'.op = "broadcast" /\ srvSent'[c] # <<>>)
             => /\ conns[c].handlers
                /\ ~Acknowledged(srvSent'[c])]_vars

\* A broadcast reaches a connection that was registered and acknowledged.
C27_Witness ==
    /\ srvOp.op = "broadcast"
    /\ \E c \in ConnIds :
          /\ srvSent[c] # <<>>
          /\ conns[c].handlers
          /\ conns[c].channel \in validChannels


ControlTypes == {"PING", "PONG", "AUTH", "AUTH_SUCCESS", "CONNECTED"}
DomainEvents(sent) == { sent[i].type : i \in { j \in 1..Len(sent) : sent[j].type \notin ControlTypes } }

\* C28: the server keeps no envelope for later. Every domain event sent to
\* a connection is the envelope of the broadcast made in that very step,
\* and the connection was open and a member of the channel before the
\* step: an envelope broadcast while a client had no such connection is
\* sent in no later step, and a connection registered afterwards is sent
\* only what is broadcast after its registration.
C28_MissedBroadcastNeverDelivered ==
    [][\A c \in ConnIds :
          DomainEvents(srvSent'[c]) # {}
          => /\ srvOp'.op = "broadcast"
             /\ DomainEvents(srvSent'[c]) = {srvOp'.data}
             /\ conns[c].st = "OPEN"
             /\ c \in Get(wsConnections, srvOp'.channel)]_vars

\* An envelope is broadcast on the channel of a client whose connection has
\* closed and whose next connection is not registered yet.
C28_Witness ==
    /\ srvOp.op = "broadcast"
    /\ nConns = 1
    /\ conns[1].st = "CLOSED"
    /\ conns[1].handlers
    /\ conns[1].channel = srvOp.channel
    /\ srvSent = NoSends


(* Claims about the client's interval timers and flags *)
IntervalTimers ==
    { <<k, "pingInterval">> : k \in { j \in SockIds : socks[j].pingInterval } }
    \cup { <<k, "healthCheck">> : k \in { j \in SockIds : socks[j].healthCheck } }

ConnectingOrOpen == { k \in SockIds : socks[k].st \in {"CONNECTING", "OPEN"} }

\* C29: the interval timers of a socket are cancelled once it has closed:
\* there are never more than two active interval timers per connecting or
\* open socket.
C29_TwoIntervalsPerLiveSocket ==
    Cardinality(IntervalTimers) <= 2 * Cardinality(ConnectingOrOpen)


\* C30: the isConnected flag of a subscriber is true only while the
\* connection it is attached to is open (or open and being closed: the flag
\* falls when the close event arrives), also when another subscriber
\* created that connection.
C30_IsConnectedOnlyWhileOpen ==
    \A h \in HookIds :
        (hooks[h].mounted /\ hooks[h].isConnected)
        => /\ hooks[h].wsRef # 0
           /\ socks[hooks[h].wsRef].st \in {"OPEN", "CLOSING"}

=============================================================================
